---- MODULE Spec2Model ----
(***************************************************************************)
(* The BEF transcoder of "Bef Parser v0.py" (src/unnamed/part_000) and of  *)
(* instancias_vtest.py: get_suffix, parse_bef, parse_all_bef and           *)
(* generate_bef_from_instances.                                            *)
(*                                                                         *)
(* A Python str is a sequence of one-character strings, so that prefixes,  *)
(* splits and strips are computed character by character as the code       *)
(* computes them.  A Python dict is a sequence of [k, v] entries in        *)
(* insertion order with unique keys.                                       *)
(***************************************************************************)
EXTENDS Naturals, Sequences, FiniteSets

VARIABLES
    pc,             \* position of the running script / call
    arg,            \* argument of the pure function under test
    ret,            \* its return value
    pool,           \* which files the environment supplies: "one" or "two"
    maxl,           \* longest file the environment supplies
    files,          \* file_list still to be parsed (parse_all_bef)
    filepath,       \* parse_bef: filepath
    text,           \* parse_bef: the lines of the file read so far
    data,           \* parse_bef: data
    order,          \* parse_bef: order
    current_cfg,    \* parse_bef: current_cfg
    current_block,  \* parse_bef: current_block
    instances,      \* parse_bef: instances (the value returned)
    all_instances,  \* parse_all_bef: all_instances
    frame,          \* the DataFrame handed to generate_bef_from_instances
    emitted,        \* generate_bef_from_instances: (cfg, suffix, params) per block
    lines,          \* generate_bef_from_instances: lines
    written         \* the text written to output_path

vars == <<pc, arg, ret, pool, maxl, files, filepath, text, data, order,
          current_cfg, current_block, instances, all_instances, frame,
          emitted, lines, written>>

---------------------------------------------------------------------------
(* Bounds of the model.                                                    *)

MaxPieces == 3
MaxLines == 4
MaxLinesAll == 2
MaxCols == 2
MaxRows == 2
MaxChars == 5

---------------------------------------------------------------------------
(* Python values.                                                          *)

\* None (and a missing DataFrame cell, NaN): a value no str equals.
None == <<"<None>">>

NaN == <<"<NaN>">>

\* bool(x) of a str or None: None and '' are falsy.
Truthy(x) == x # None /\ x # <<>>

\* pd.isna(val)
isna(val) == val = NaN \/ val = None

US == "_"

EQ == "="

NL == "\n"

\* str.isspace() of one character (what \s matches, what str.strip() removes)
IsSpace(c) == c \in {" ", "\t"}

\* the characters \w matches: letters, digits and the underscore
WordChars ==
    {"a", "b", "c", "d", "e", "f", "g", "h", "i", "j", "k", "l", "m", "n", "o",
     "p", "q", "r", "s", "t", "u", "v", "w", "x", "y", "z", "A", "B", "C", "D",
     "E", "F", "G", "H", "I", "J", "K", "L", "M", "N", "O", "P", "Q", "R", "S",
     "T", "U", "V", "W", "X", "Y", "Z", "0", "1", "2", "3", "4", "5", "6", "7",
     "8", "9", "_"}

IsWord(c) == c \in WordChars

SetMin(S) == CHOOSE x \in S : \A y \in S : x <= y

SetMax(S) == CHOOSE x \in S : \A y \in S : x >= y

\* s.startswith(p)
StartsWith(s, p) == Len(p) <= Len(s) /\ SubSeq(s, 1, Len(p)) = p

\* positions of character c in s
Positions(s, c) == {i \in 1..Len(s) : s[i] = c}

\* s.split(c, 1)[0]: what precedes the first c, or s when there is none
SplitFirstHead(s, c) ==
    IF Positions(s, c) = {} THEN s
    ELSE SubSeq(s, 1, SetMin(Positions(s, c)) - 1)

\* s.split(c, 1)[1]: what follows the first c
SplitFirstTail(s, c) == SubSeq(s, SetMin(Positions(s, c)) + 1, Len(s))

\* s.strip(chars): chars dropped from both ends, the inside kept
StripSet(s, chars) ==
    LET keep == {i \in 1..Len(s) : s[i] \notin chars}
    IN  IF keep = {} THEN <<>> ELSE SubSeq(s, SetMin(keep), SetMax(keep))

\* s.strip()
strip(s) == StripSet(s, {" ", "\t"})

RECURSIVE Concat(_)
\* ''.join(parts)
Concat(parts) ==
    IF parts = <<>> THEN <<>> ELSE Head(parts) \o Concat(Tail(parts))

RECURSIVE Join(_, _)
\* sep.join(parts)
Join(parts, sep) ==
    IF parts = <<>> THEN <<>>
    ELSE IF Len(parts) = 1 THEN parts[1]
    ELSE parts[1] \o <<sep>> \o Join(Tail(parts), sep)

---------------------------------------------------------------------------
(* dict: insertion-ordered, unique keys.                                   *)

Keys(d) == {d[i].k : i \in 1..Len(d)}

Has(d, key) == key \in Keys(d)

Get(d, key) == d[CHOOSE i \in 1..Len(d) : d[i].k = key].v

\* d[key] = val: a present key keeps its place, a new key goes last
Put(d, key, val) ==
    IF Has(d, key)
    THEN [i \in 1..Len(d) |-> IF d[i].k = key THEN [k |-> key, v |-> val] ELSE d[i]]
    ELSE Append(d, [k |-> key, v |-> val])

---------------------------------------------------------------------------
(* The words of the format.                                                *)

s_block == <<"b", "l", "o", "c", "k">>

s_data == <<"d", "a", "t", "a">>

s_krige == <<"k", "r", "i", "g", "e">>

s_soft == <<"s", "o", "f", "t">>

s_spec == <<"s", "p", "e", "c">>

s_str == <<"s", "t", "r">>

s_cutoff == <<"c", "u", "t", "o", "f", "f">>

s_str_cutoff == s_str \o <<US>> \o s_cutoff

s_BEGIN == <<"B", "E", "G", "I", "N", "$", "D", "E", "F">>

s_END == <<"E", "N", "D", "$", "D", "E", "F">>

s_file == <<"f", "i", "l", "e">>

s_name == <<"n", "a", "m", "e">>

s_file_name == s_file \o <<US>> \o s_name

s_config == <<"c", "o", "n", "f", "i", "g">>

---------------------------------------------------------------------------
(* get_suffix                                                              *)

SUFFIX_MAP ==
    << [k |-> s_block, v |-> s_block],
       [k |-> s_data, v |-> s_data],
       [k |-> s_krige, v |-> s_krige],
       [k |-> s_soft, v |-> s_soft],
       [k |-> s_spec, v |-> s_spec],
       [k |-> s_str_cutoff, v |-> s_str_cutoff] >>

\* a slip: split at the last underscore where the code splits at the first
get_suffix_rsplit(block_name) ==
    LET hits == {i \in 1..Len(SUFFIX_MAP) : StartsWith(block_name, SUFFIX_MAP[i].k)}
    IN  IF hits # {} THEN SUFFIX_MAP[SetMin(hits)].v
        ELSE IF Positions(block_name, US) = {} THEN block_name
        ELSE SubSeq(block_name, 1, SetMax(Positions(block_name, US)) - 1)

\* for key in SUFFIX_MAP: the first key, in the order declared, that
\* block_name starts with; else block_name.split('_', 1)[0]
get_suffix(block_name) ==
    LET hits == {i \in 1..Len(SUFFIX_MAP) : StartsWith(block_name, SUFFIX_MAP[i].k)}
    IN  IF hits # {} THEN SUFFIX_MAP[SetMin(hits)].v
        ELSE SplitFirstHead(block_name, US)

---------------------------------------------------------------------------
(* parse_bef: what one line is.                                            *)

\* the run of leading whitespace of s (what a greedy \s+ consumes)
LeadingSpaces(s) ==
    LET stops == {i \in 1..Len(s) : ~IsSpace(s[i])}
    IN  IF stops = {} THEN Len(s) ELSE SetMin(stops) - 1

\* the run of non-whitespace at the head of s (what [^\s]+ consumes)
NonSpaceRun(s) ==
    LET stops == {i \in 1..Len(s) : IsSpace(s[i])}
    IN  IF stops = {} THEN s ELSE SubSeq(s, 1, SetMin(stops) - 1)

\* m of a re.match that failed (m is falsy)
NoMatch == [ok |-> FALSE, cfg |-> <<>>, block_name |-> <<>>]

\* re.match(r'BEGIN\$DEF\s+(\w+?)_([^\s]+)', line): no match, or the two groups.
\* (\w+?) is lazy: the shortest run of word characters, one at least, that is
\* followed by an underscore and by one more character that is not whitespace.
BeginMatch(line) ==
    IF ~StartsWith(line, s_BEGIN) THEN NoMatch
    ELSE LET rest == SubSeq(line, Len(s_BEGIN) + 1, Len(line))
             ws == LeadingSpaces(rest)
             s == SubSeq(rest, ws + 1, Len(rest))
             ns == {n \in 1..Len(s) :
                      /\ \A i \in 1..n : IsWord(s[i])
                      /\ n + 2 <= Len(s)
                      /\ s[n + 1] = US
                      /\ ~IsSpace(s[n + 2])}
         IN  IF ws = 0 \/ ns = {} THEN NoMatch
             ELSE LET n == SetMin(ns)
                  IN  [ok |-> TRUE,
                       cfg |-> SubSeq(s, 1, n),
                       block_name |-> NonSpaceRun(SubSeq(s, n + 2, Len(s)))]

\* line.strip() == 'END$DEF'
IsEnd(line) == strip(line) = s_END

\* '=' in line
HasEq(line) == Positions(line, EQ) # {}

\* val.strip("'\"")
strip_quotes(s) == StripSet(s, {"'", "\""})

\* key, val = [s.strip() for s in line.split('=', 1)]
ParamKey(line) == strip(SplitFirstHead(line, EQ))

\* val = val.strip("'\"") of the stripped second part
ParamVal(line) == strip_quotes(strip(SplitFirstTail(line, EQ)))

\* if cfg not in data: data[cfg] = {}; if suffix not in data[cfg]: data[cfg][suffix] = {}
OpenBlock(d, cfg, suffix) ==
    LET d1 == IF Has(d, cfg) THEN d ELSE Put(d, cfg, <<>>)
    IN  IF Has(Get(d1, cfg), suffix) THEN d1
        ELSE Put(d1, cfg, Put(Get(d1, cfg), suffix, <<>>))

\* a slip: order.append(cfg) moved out of the `if cfg not in data`
NoteOrder_always(ord, d, cfg) == Append(ord, cfg)

\* if cfg not in data: ... order.append(cfg)
NoteOrder(ord, d, cfg) == IF Has(d, cfg) THEN ord ELSE Append(ord, cfg)

\* data[current_cfg][current_block][key] = val
Store(d, cfg, suffix, key, val) ==
    Put(d, cfg, Put(Get(d, cfg), suffix, Put(Get(Get(d, cfg), suffix), key, val)))

---------------------------------------------------------------------------
(* parse_bef: the record of one configuration.                             *)

\* os.path.basename(filepath)
basename(path) ==
    IF Positions(path, "/") = {} THEN path
    ELSE SubSeq(path, SetMax(Positions(path, "/")) + 1, Len(path))

\* col = f"{key}_{suffix}"
ColName(key, suffix) == key \o <<US>> \o suffix

RECURSIVE PutAll(_, _)
\* inst[col] = val for each entry in turn
PutAll(inst, entries) ==
    IF entries = <<>> THEN inst
    ELSE PutAll(Put(inst, Head(entries).k, Head(entries).v), Tail(entries))

\* for suffix, params in data[cfg].items(): for key, val in params.items():
\* the (col, val) assignments in the order the loops make them
FlatEntries(groups) ==
    Concat([g \in 1..Len(groups) |->
              [j \in 1..Len(groups[g].v) |->
                 [k |-> ColName(groups[g].v[j].k, groups[g].k),
                  v |-> groups[g].v[j].v]]])

\* inst = {'file_name': ..., 'config': cfg}, then the parameter columns
MakeInstance(path, cfg, groups) ==
    PutAll(<< [k |-> s_file_name, v |-> basename(path)],
              [k |-> s_config, v |-> cfg] >>,
           FlatEntries(groups))

\* instances: one record per cfg in order
MakeInstances(path, d, ord) ==
    [i \in 1..Len(ord) |-> MakeInstance(path, ord[i], Get(d, ord[i]))]

---------------------------------------------------------------------------
(* The files the environment supplies.                                     *)

L_sp == <<" ">>

\* 'BEGIN$DEF <cfg>_<block_name>'
BeginLine(cfg, block_name) == s_BEGIN \o L_sp \o cfg \o <<US>> \o block_name

\* '<key>=<val>'
ParamLine(key, val) == key \o <<EQ>> \o val

c_A == <<"A">>

c_B == <<"B">>

s_centroid == <<"c", "e", "n", "t", "r", "o", "i", "d">>

s_mn == <<"m", "n">>

k_a == <<"a">>

k_a_str == k_a \o <<US>> \o s_str

v_1 == <<"1">>

v_2 == <<"2">>

v_3 == <<"3">>

\* the lines of the files of the single-file run
Pool ==
    { BeginLine(c_A, s_str_cutoff \o <<US>> \o s_mn),
      BeginLine(c_A, s_cutoff),
      BeginLine(c_B, s_block \o <<US>> \o s_centroid),
      BeginLine(c_A, <<US, "x">>),
      L_sp \o s_END,
      ParamLine(k_a, v_1),
      ParamLine(k_a, <<"'">> \o v_2 \o <<"'">>),
      ParamLine(k_a_str, v_3),
      s_BEGIN \o L_sp \o c_A }

\* the lines of the files of the two-file run
PoolAll ==
    { BeginLine(c_A, s_block),
      BeginLine(c_A, s_name),
      s_END,
      ParamLine(s_file, v_1),
      <<>> }

\* the lines a file of the run may hold
Lines(run) == IF run = "one" THEN Pool ELSE PoolAll

p_f1 == <<"d", "/", "f", "1", ".", "b", "e", "f">>

p_f2 == <<"d", "/", "f", "2", ".", "b", "e", "f">>

---------------------------------------------------------------------------
(* parse_all_bef and parse_bef, one action per step.                       *)

\* for filepath in file_list: parse_bef(filepath) is entered
OpenFile ==
    /\ pc = "next_file"
    /\ files # <<>>
    /\ filepath' = Head(files)
    /\ files' = Tail(files)
    /\ text' = <<>>
    /\ data' = <<>>
    /\ order' = <<>>
    /\ current_cfg' = None
    /\ current_block' = None
    /\ instances' = <<>>
    /\ pc' = "read"
    /\ UNCHANGED <<arg, ret, pool, maxl, all_instances, frame, emitted, lines, written>>

\* for line in f: the line opens a block
BeginDef(line) ==
    /\ pc = "read"
    /\ Len(text) < maxl
    /\ BeginMatch(line).ok
    /\ LET m == BeginMatch(line)
           suffix == get_suffix(m.block_name)
       IN  /\ current_cfg' = m.cfg
           /\ current_block' = suffix
           /\ order' = NoteOrder(order, data, m.cfg)
           /\ data' = OpenBlock(data, m.cfg, suffix)
    /\ text' = Append(text, line)
    /\ UNCHANGED <<pc, arg, ret, pool, maxl, files, filepath, instances,
                   all_instances, frame, emitted, lines, written>>

\* for line in f: the line closes a block
EndDef(line) ==
    /\ pc = "read"
    /\ Len(text) < maxl
    /\ ~BeginMatch(line).ok
    /\ IsEnd(line)
    /\ current_block' = None
    /\ text' = Append(text, line)
    /\ UNCHANGED <<pc, arg, ret, pool, maxl, files, filepath, data, order,
                   current_cfg, instances, all_instances, frame, emitted,
                   lines, written>>

\* for line in f: the line sets a parameter of the open block
Param(line) ==
    /\ pc = "read"
    /\ Len(text) < maxl
    /\ ~BeginMatch(line).ok
    /\ ~IsEnd(line)
    /\ Truthy(current_cfg) /\ Truthy(current_block) /\ HasEq(line)
    /\ data' = Store(data, current_cfg, current_block, ParamKey(line), ParamVal(line))
    /\ text' = Append(text, line)
    /\ UNCHANGED <<pc, arg, ret, pool, maxl, files, filepath, order,
                   current_cfg, current_block, instances, all_instances,
                   frame, emitted, lines, written>>

\* for line in f: no branch takes the line
Ignored(line) ==
    /\ pc = "read"
    /\ Len(text) < maxl
    /\ ~BeginMatch(line).ok
    /\ ~IsEnd(line)
    /\ ~(Truthy(current_cfg) /\ Truthy(current_block) /\ HasEq(line))
    /\ text' = Append(text, line)
    /\ UNCHANGED <<pc, arg, ret, pool, maxl, files, filepath, data, order,
                   current_cfg, current_block, instances, all_instances,
                   frame, emitted, lines, written>>

\* the file is exhausted: parse_bef builds and returns instances, and
\* parse_all_bef extends all_instances with them
EndOfFile ==
    /\ pc = "read"
    /\ instances' = MakeInstances(filepath, data, order)
    /\ all_instances' = all_instances \o instances'
    /\ pc' = "next_file"
    /\ UNCHANGED <<arg, ret, pool, maxl, files, filepath, text, data, order,
                   current_cfg, current_block, frame, emitted, lines, written>>

---------------------------------------------------------------------------
(* pd.DataFrame(all_instances): the columns are the keys of the records in *)
(* the order they are first met, a record without a column holds NaN.      *)

RECURSIVE UnionKeys(_, _)
UnionKeys(cols, entries) ==
    IF entries = <<>> THEN cols
    ELSE UnionKeys(IF \E i \in 1..Len(cols) : cols[i] = Head(entries).k
                   THEN cols ELSE Append(cols, Head(entries).k),
                   Tail(entries))

\* the columns of the frame
FrameCols(insts) == UnionKeys(<<>>, Concat(insts))

\* row.items() of one record under the columns of the frame
FrameRow(cols, inst) ==
    [j \in 1..Len(cols) |->
       [k |-> cols[j], v |-> IF Has(inst, cols[j]) THEN Get(inst, cols[j]) ELSE NaN]]

DataFrame(insts) ==
    [i \in 1..Len(insts) |-> FrameRow(FrameCols(insts), insts[i])]

---------------------------------------------------------------------------
(* generate_bef_from_instances                                             *)

\* m of a pattern.match that failed
NoSplit == [ok |-> FALSE, param |-> <<>>, suffix |-> <<>>]

\* pattern.match(col) for r'^(?P<param>.+)_(?P<suffix>[^_]+)$': no match, or
\* the groups on either side of the last underscore, both non-empty
SplitCol(col) ==
    LET us == Positions(col, US)
    IN  IF us = {} THEN NoSplit
        ELSE LET u == SetMax(us)
             IN  IF u = 1 \/ u = Len(col) THEN NoSplit
                 ELSE [ok |-> TRUE,
                       param |-> SubSeq(col, 1, u - 1),
                       suffix |-> SubSeq(col, u + 1, Len(col))]

\* a slip: a column with a missing value is grouped like any other
Skipped_keep_missing(col, val) ==
    col \in {s_file_name, s_config} \/ ~SplitCol(col).ok

\* if col in ('file_name', 'config') or pd.isna(val): continue
\* if not m: continue
Skipped(col, val) ==
    col \in {s_file_name, s_config} \/ isna(val) \/ ~SplitCol(col).ok

RECURSIVE RowBlocks(_, _)
\* blocks.setdefault(suffix, {})[param] = val, for each column of the row
RowBlocks(blocks, entries) ==
    IF entries = <<>> THEN blocks
    ELSE LET col == Head(entries).k
             val == Head(entries).v
         IN  IF Skipped(col, val) THEN RowBlocks(blocks, Tail(entries))
             ELSE LET m == SplitCol(col)
                      group == IF Has(blocks, m.suffix) THEN Get(blocks, m.suffix)
                               ELSE <<>>
                  IN  RowBlocks(Put(blocks, m.suffix, Put(group, m.param, val)),
                                Tail(entries))

\* the blocks of one row, each with the cfg of the row
RowEmitted(row) ==
    LET blocks == RowBlocks(<<>>, row)
    IN  [b \in 1..Len(blocks) |->
           [cfg |-> Get(row, s_config), suffix |-> blocks[b].k, params |-> blocks[b].v]]

\* lines.append(...) for one block
BlockLines(b) ==
    <<s_BEGIN \o <<" ">> \o b.cfg \o <<US>> \o b.suffix>>
    \o [j \in 1..Len(b.params) |-> b.params[j].k \o <<EQ>> \o b.params[j].v]
    \o <<s_END, <<>>>>

\* for _, row in instances.iterrows(): the blocks in the order written
Emitted(df) == Concat([i \in 1..Len(df) |-> RowEmitted(df[i])])

\* generate_bef_from_instances(instances): the blocks, their lines, and the
\* text "\n".join(lines) written to output_path
GenerateFrom(df) ==
    /\ emitted' = Emitted(df)
    /\ lines' = Concat([b \in 1..Len(emitted') |-> BlockLines(emitted'[b])])
    /\ written' = Join(lines', NL)

\* the script after parse_all_bef: df_all = DataFrame(all_instances) is handed
\* to generate_bef_from_instances
Generate ==
    /\ pc = "next_file"
    /\ files = <<>>
    /\ frame' = DataFrame(all_instances)
    /\ GenerateFrom(frame')
    /\ pc' = "generated"
    /\ UNCHANGED <<arg, ret, pool, maxl, files, filepath, text, data, order,
                   current_cfg, current_block, instances, all_instances>>

\* generate_bef_from_instances called on a table of the caller
GenerateCall ==
    /\ pc = "frame"
    /\ GenerateFrom(frame)
    /\ pc' = "generated"
    /\ UNCHANGED <<arg, ret, pool, maxl, files, filepath, text, data, order,
                   current_cfg, current_block, instances, all_instances, frame>>

\* get_suffix(block_name) called on its own
CallSuffix ==
    /\ pc = "get_suffix"
    /\ ret' = get_suffix(arg)
    /\ pc' = "returned"
    /\ UNCHANGED <<arg, pool, maxl, files, filepath, text, data, order,
                   current_cfg, current_block, instances, all_instances,
                   frame, emitted, lines, written>>

\* lines 75-76 of parse_bef on one line that holds '='
CallParam ==
    /\ pc = "param"
    /\ HasEq(arg)
    /\ ret' = [key |-> ParamKey(arg), val |-> ParamVal(arg)]
    /\ pc' = "returned"
    /\ UNCHANGED <<arg, pool, maxl, files, filepath, text, data, order,
                   current_cfg, current_block, instances, all_instances,
                   frame, emitted, lines, written>>

---------------------------------------------------------------------------
(* The single-file run: parse_all_bef over one file, then the generator.   *)

Init ==
    /\ pc = "next_file"
    /\ arg = None
    /\ ret = None
    /\ pool = "one"
    /\ maxl = MaxLines
    /\ files = <<p_f1>>
    /\ filepath = None
    /\ text = <<>>
    /\ data = <<>>
    /\ order = <<>>
    /\ current_cfg = None
    /\ current_block = None
    /\ instances = <<>>
    /\ all_instances = <<>>
    /\ frame = <<>>
    /\ emitted = <<>>
    /\ lines = <<>>
    /\ written = <<>>

Next ==
    \/ OpenFile
    \/ \E line \in Lines(pool) : BeginDef(line)
    \/ \E line \in Lines(pool) : EndDef(line)
    \/ \E line \in Lines(pool) : Param(line)
    \/ \E line \in Lines(pool) : Ignored(line)
    \/ EndOfFile
    \/ Generate

Spec == Init /\ [][Next]_vars

---------------------------------------------------------------------------
(* The two-file run: parse_all_bef over two files of one directory.        *)

InitAll ==
    /\ pc = "next_file"
    /\ arg = None
    /\ ret = None
    /\ pool = "two"
    /\ maxl = MaxLinesAll
    /\ files = <<p_f1, p_f2>>
    /\ filepath = None
    /\ text = <<>>
    /\ data = <<>>
    /\ order = <<>>
    /\ current_cfg = None
    /\ current_block = None
    /\ instances = <<>>
    /\ all_instances = <<>>
    /\ frame = <<>>
    /\ emitted = <<>>
    /\ lines = <<>>
    /\ written = <<>>

SpecAll == InitAll /\ [][Next]_vars

---------------------------------------------------------------------------
(* The functions on their own, over bounded sets of arguments.             *)

\* the strings made of at most n parts
Built(parts, n) ==
    UNION {{Concat(ps) : ps \in [1..m -> parts]} : m \in 0..n}

Rest ==
    /\ pool = "none"
    /\ maxl = 0
    /\ files = <<>>
    /\ filepath = None
    /\ text = <<>>
    /\ data = <<>>
    /\ order = <<>>
    /\ current_cfg = None
    /\ current_block = None
    /\ instances = <<>>
    /\ all_instances = <<>>
    /\ emitted = <<>>
    /\ lines = <<>>
    /\ written = <<>>

s_foo == <<"f", "o", "o">>

s_bar == <<"b", "a", "r">>

s_nounderscore == <<"n", "o", "u", "n", "d", "e", "r", "s", "c", "o", "r", "e">>

\* the parts block-name fragments are made of
Pieces ==
    {s_block, s_str_cutoff, s_str, s_spec, s_centroid, s_mn, s_foo, s_bar,
     s_nounderscore, <<US>>, <<"s">>}

InitSuffix ==
    /\ pc = "get_suffix"
    /\ arg \in Built(Pieces, MaxPieces)
    /\ ret = None
    /\ frame = <<>>
    /\ Rest

NextSuffix == CallSuffix

SpecSuffix == InitSuffix /\ [][NextSuffix]_vars

\* the characters key=value lines are made of
ParamChars == {<<"a">>, <<EQ>>, <<" ">>, <<"'">>, <<"\"">>}

InitParam ==
    /\ pc = "param"
    /\ arg \in Built(ParamChars, MaxChars)
    /\ ret = None
    /\ frame = <<>>
    /\ Rest

NextParam == CallParam

SpecParam == InitParam /\ [][NextParam]_vars

\* the parameter columns a table of the caller may hold
ColPool ==
    { ColName(k_a, s_block),
      ColName(<<"b">>, s_block),
      ColName(k_a, s_str_cutoff),
      ColName(<<>>, s_block),
      ColName(k_a, <<>>),
      k_a }

\* a column list: file_name, config, then distinct parameter columns
ColList(cs) == <<s_file_name, s_config>> \o cs

\* the table with columns cols and n rows: row i of configuration A or B,
\* parameter cell j of row i a value or missing
Table(cols, n, cells) ==
    [i \in 1..n |->
       [j \in 1..Len(cols) |->
          [k |-> cols[j],
           v |-> IF j = 1 THEN basename(p_f1)
                 ELSE IF j = 2 THEN (IF i = 2 THEN c_B ELSE c_A)
                 ELSE cells[i][j - 2]]]]

InitEnc ==
    /\ pc = "frame"
    /\ arg = None
    /\ ret = None
    /\ \E m \in 0..MaxCols, n \in 0..MaxRows :
          \E cs \in [1..m -> ColPool] :
             /\ \A i, j \in 1..m : i # j => cs[i] # cs[j]
             /\ \E cells \in [1..n -> [1..m -> {NaN, v_1}]] :
                   frame = Table(ColList(cs), n, cells)
    /\ Rest

NextEnc == GenerateCall

SpecEnc == InitEnc /\ [][NextEnc]_vars

---------------------------------------------------------------------------
(* What the claims speak of, read off the text of the file.                *)

\* parse_bef has returned
Returned == pc \in {"next_file", "generated"} /\ filepath # None

\* what each line of the text is to the decoder's BEGIN$DEF pattern
Matches == [i \in 1..Len(text) |-> BeginMatch(text[i])]

\* p is a prefix of s
IsPrefix(p, s) == Len(p) <= Len(s) /\ \A i \in 1..Len(p) : s[i] = p[i]

\* the prefixes in the order declared
Declared == <<s_block, s_data, s_krige, s_soft, s_spec, s_str_cutoff>>

---------------------------------------------------------------------------
(* C2: get_suffix returns a string: the canonical suffix of the first      *)
(* declared prefix (block, data, krige, soft, spec, str_cutoff) the        *)
(* fragment starts with; failing that, what precedes the fragment's first  *)
(* underscore; failing that, the fragment itself.  block_centroid -> block,*)
(* str_cutoff_mn -> str_cutoff, foo_bar -> foo, nounderscore unchanged.    *)
C2_GetSuffix ==
    pc = "returned" =>
        /\ ret # None
        /\ DOMAIN ret = 1..Len(ret)
        /\ IF \E i \in 1..Len(Declared) : IsPrefix(Declared[i], arg)
           THEN \E i \in 1..Len(Declared) :
                   /\ IsPrefix(Declared[i], arg)
                   /\ \A j \in 1..(i - 1) : ~IsPrefix(Declared[j], arg)
                   /\ ret = Declared[i]
           ELSE IF \E k \in 1..Len(arg) : arg[k] = US
           THEN \E k \in 1..Len(arg) :
                   /\ arg[k] = US
                   /\ \A j \in 1..(k - 1) : arg[j] # US
                   /\ ret = SubSeq(arg, 1, k - 1)
           ELSE ret = arg
        /\ (arg = s_block \o <<US>> \o s_centroid => ret = s_block)
        /\ (arg = s_str_cutoff \o <<US>> \o s_mn => ret = s_str_cutoff)
        /\ (arg = s_foo \o <<US>> \o s_bar => ret = s_foo)
        /\ (arg = s_nounderscore => ret = s_nounderscore)

\* get_suffix has answered str_cutoff_mn, a fragment with further underscores
C2_Witness ==
    pc = "returned" /\ arg = s_str_cutoff \o <<US>> \o s_mn /\ ret = s_str_cutoff

(* C3: parse_bef returns exactly one record per distinct configuration id  *)
(* of the recognised BEGIN$DEF lines, in the order the ids first appear,   *)
(* however many blocks a configuration has and however they interleave; no *)
(* BEGIN$DEF line, no record.                                              *)
C3_OneRecordPerConfig ==
    Returned =>
        LET m == Matches
            begins == {i \in 1..Len(text) : m[i].ok}
            ids == {m[i].cfg : i \in begins}
            first == [c \in ids |-> SetMin({i \in begins : m[i].cfg = c})]
            cfgs == [r \in 1..Len(instances) |->
                       IF Has(instances[r], s_config)
                       THEN Get(instances[r], s_config) ELSE None]
        IN  /\ Len(instances) = Cardinality(ids)
            /\ \A r \in 1..Len(instances) : cfgs[r] \in ids
            /\ \A r1, r2 \in 1..Len(instances) :
                  r1 < r2 => first[cfgs[r1]] < first[cfgs[r2]]

\* two configurations, B first, with blocks of B around a block of A
C3_Witness ==
    /\ Returned
    /\ Len(text) = 3
    /\ Len(instances) = 2
    /\ Get(instances[1], s_config) = c_B
    /\ \A i \in 1..3 : BeginMatch(text[i]).ok
    /\ BeginMatch(text[3]).cfg = c_B

\* the recognised BEGIN$DEF line that opens the block line i of t stands in:
\* the last marker before line i when that marker is a BEGIN$DEF, else 0
Opener(t, i) ==
    LET ms == {j \in 1..(i - 1) : BeginMatch(t[j]).ok \/ IsEnd(t[j])}
    IN  IF ms = {} THEN 0
        ELSE IF BeginMatch(t[SetMax(ms)]).ok THEN SetMax(ms) ELSE 0

\* line i of t is no marker
Plain(t, i) == ~BeginMatch(t[i]).ok /\ ~IsEnd(t[i])

\* the configuration id and the resolved suffix of BEGIN$DEF line b of t
CfgOf(t, b) == BeginMatch(t[b]).cfg

SuffixOf(t, b) == get_suffix(BeginMatch(t[b]).block_name)

\* the record of configuration c among the records returned
RecordOf(c) ==
    instances[CHOOSE r \in 1..Len(instances) : Get(instances[r], s_config) = c]

---------------------------------------------------------------------------
(* C8: a line with '=' is stored exactly when the decoder is in a block,   *)
(* that is when the last marker before it is a recognised BEGIN$DEF        *)
(* <config>_<rest>, and then under that config and resolve(rest), an empty *)
(* resolved suffix included; any other line that is no marker leaves the   *)
(* records as they are.                                                    *)
C8_StoredExactlyInBlock ==
    [][(pc = "read" /\ pc' = "read" /\ Len(text') = Len(text) + 1
          /\ Plain(text', Len(text'))) =>
         LET i == Len(text')
             o == Opener(text', i)
         IN  IF HasEq(text'[i]) /\ o # 0
             THEN LET c == CfgOf(text', o)
                      s == SuffixOf(text', o)
                  IN  /\ Has(data', c)
                      /\ Has(Get(data', c), s)
                      /\ Has(Get(Get(data', c), s), ParamKey(text'[i]))
                      /\ Get(Get(Get(data', c), s), ParamKey(text'[i]))
                           = ParamVal(text'[i])
             ELSE data' = data]_vars

(* C10: no sequence of lines brings parse_bef to an error: the group a     *)
(* parameter is stored into always exists, the end of the file can always  *)
(* be taken, and the parameters of a block left open at the end of the     *)
(* file are columns of the record of its configuration.                    *)
C10_Permissive ==
    /\ (pc = "read" /\ Truthy(current_cfg) /\ Truthy(current_block)) =>
          Has(data, current_cfg) /\ Has(Get(data, current_cfg), current_block)
    /\ pc = "read" => ENABLED EndOfFile
    /\ Returned =>
          LET o == Opener(text, Len(text) + 1)
          IN  o # 0 =>
                \A i \in (o + 1)..Len(text) :
                    HasEq(text[i]) =>
                        Has(RecordOf(CfgOf(text, o)),
                            ColName(ParamKey(text[i]), SuffixOf(text, o)))

(* C4: blocks of one configuration that resolve to one suffix are merged:  *)
(* the record has a column <key>_<suffix> for every key set in any of      *)
(* them, and a key set more than once holds the value set last.            *)
C4_MergeLastWins ==
    Returned =>
        \A b1, b2 \in 1..Len(text) :
            (/\ b1 < b2
             /\ BeginMatch(text[b1]).ok /\ BeginMatch(text[b2]).ok
             /\ CfgOf(text, b1) = CfgOf(text, b2)
             /\ SuffixOf(text, b1) = SuffixOf(text, b2)) =>
                LET c == CfgOf(text, b1)
                    s == SuffixOf(text, b1)
                    sets == {i \in 1..Len(text) :
                               /\ Plain(text, i) /\ HasEq(text[i])
                               /\ Opener(text, i) # 0
                               /\ CfgOf(text, Opener(text, i)) = c
                               /\ SuffixOf(text, Opener(text, i)) = s}
                IN  \A i \in sets :
                       LET same == {j \in sets : ParamKey(text[j]) = ParamKey(text[i])}
                       IN  /\ Has(RecordOf(c), ColName(ParamKey(text[i]), s))
                           /\ (Cardinality(same) > 1 /\ i = SetMax(same)) =>
                                 Get(RecordOf(c), ColName(ParamKey(text[i]), s))
                                   = ParamVal(text[i])

(* C6: in a record, two distinct (suffix, parameter) pairs never share a   *)
(* column name, and every pair's column holds the value stored for that    *)
(* pair.                                                                   *)
C6_NoCollision ==
    Returned =>
        \A r \in 1..Len(order) :
            LET groups == Get(data, order[r])
                pairs == {<<g, j>> : g \in 1..Len(groups), j \in 1..MaxLines + 1}
                live == {p \in pairs : p[2] <= Len(groups[p[1]].v)}
                col(p) == ColName(groups[p[1]].v[p[2]].k, groups[p[1]].k)
            IN  \A p, q \in live :
                   /\ p # q => col(p) # col(q)
                   /\ Get(instances[r], col(p)) = groups[p[1]].v[p[2]].v

\* the file is well formed: blocks that open and close in turn, each line
\* inside one a key=value line with a key, no block of an empty suffix
WellFormed ==
    /\ \A i \in 1..Len(text) :
          IF BeginMatch(text[i]).ok
          THEN Opener(text, i) = 0 /\ SuffixOf(text, i) # <<>>
          ELSE IF IsEnd(text[i]) THEN Opener(text, i) # 0
          ELSE /\ HasEq(text[i]) /\ ParamKey(text[i]) # <<>>
               /\ Opener(text, i) # 0
    /\ Opener(text, Len(text) + 1) = 0

\* the (config, suffix, parameter, value) tuples the decoder read
DecodedTuples ==
    UNION {UNION {{<<data[c].k, data[c].v[g].k, data[c].v[g].v[j].k, data[c].v[g].v[j].v>> :
                      j \in 1..Len(data[c].v[g].v)} :
                  g \in 1..Len(data[c].v)} :
           c \in 1..Len(data)}

\* the (config, suffix, parameter, value) tuples of the blocks written
EmittedTuples ==
    UNION {{<<emitted[b].cfg, emitted[b].suffix, emitted[b].params[j].k,
              emitted[b].params[j].v>> : j \in 1..Len(emitted[b].params)} :
           b \in 1..Len(emitted)}

(* C1: a well-formed file, decoded by parse_bef and encoded again by       *)
(* generate_bef_from_instances, gives blocks whose (config, suffix,        *)
(* parameter, value) tuples are the tuples the decoder read, for every     *)
(* block name (str_cutoff among them) and every parameter name.            *)
C1_RoundTrip ==
    (pc = "generated" /\ WellFormed) => EmittedTuples = DecodedTuples

---------------------------------------------------------------------------
(* C7: every record parse_bef returns has the basename of the file in      *)
(* 'file_name' and its configuration id in 'config'; two records of one    *)
(* configuration id that come from two files differ in 'file_name'.        *)
C7_OriginTag ==
    /\ Returned =>
          \A r \in 1..Len(instances) :
              /\ Get(instances[r], s_file_name) = basename(filepath)
              /\ Get(instances[r], s_config) = order[r]
    /\ pc = "generated" =>
          \A r1, r2 \in 1..Len(all_instances) :
              (r1 < r2 /\ Get(all_instances[r1], s_config)
                            = Get(all_instances[r2], s_config)) =>
                  Get(all_instances[r1], s_file_name)
                    # Get(all_instances[r2], s_file_name)

---------------------------------------------------------------------------
\* s without one layer of quotes, when one quote character brackets all of s
OneLayer(s) ==
    IF Len(s) >= 2 /\ s[1] \in {"'", "\""} /\ s[Len(s)] = s[1]
    THEN SubSeq(s, 2, Len(s) - 1)
    ELSE s

(* C5: a key=value line is split on its first '=', key and value are       *)
(* trimmed, and exactly one layer of quotes is removed from the value, and *)
(* only when one quote character brackets the whole trimmed value; a quote *)
(* on one side only, or an inner layer of quotes, stays.                   *)
C5_OneQuoteLayer ==
    pc = "returned" =>
        /\ ret.key = strip(SplitFirstHead(arg, EQ))
        /\ ret.val = OneLayer(strip(SplitFirstTail(arg, EQ)))

---------------------------------------------------------------------------
\* where the last underscore of a column name stands
LastUS(col) == SetMax({i \in 1..Len(col) : col[i] = US})

ParamPart(col) == SubSeq(col, 1, LastUS(col) - 1)

SuffixPart(col) == SubSeq(col, LastUS(col) + 1, Len(col))

\* the columns of a row that give a line; `amended` leaves out the names
\* with an empty side
KeptCols(row, amended) ==
    {j \in 1..Len(row) :
        /\ row[j].k # s_file_name /\ row[j].k # s_config
        /\ row[j].v # NaN
        /\ \E i \in 1..Len(row[j].k) : row[j].k[i] = US
        /\ amended => (ParamPart(row[j].k) # <<>> /\ SuffixPart(row[j].k) # <<>>)}

\* the t-th smallest member of a set of numbers
Nth(S, t) == CHOOSE x \in S : Cardinality({y \in S : y < x}) = t - 1

\* the blocks the claim gives one row
ExpectedOfRow(row, amended) ==
    LET kept == KeptCols(row, amended)
        firsts == {j \in kept :
                     \A i \in kept : SuffixPart(row[i].k) = SuffixPart(row[j].k) => j <= i}
    IN  [b \in 1..Cardinality(firsts) |->
           LET suffix == SuffixPart(row[Nth(firsts, b)].k)
               mine == {j \in kept : SuffixPart(row[j].k) = suffix}
           IN  [cfg |-> row[CHOOSE j \in 1..Len(row) : row[j].k = s_config].v,
                suffix |-> suffix,
                params |-> [t \in 1..Cardinality(mine) |->
                              [k |-> ParamPart(row[Nth(mine, t)].k),
                               v |-> row[Nth(mine, t)].v]]]]

\* the lines the claim gives one block
ExpectedLines(b) ==
    <<s_BEGIN \o <<" ">> \o b.cfg \o <<US>> \o b.suffix>>
    \o [t \in 1..Len(b.params) |-> b.params[t].k \o <<EQ>> \o b.params[t].v]
    \o <<s_END, <<>>>>

\* what is written is what the claim gives, block by block and line by line
EncoderLaw(amended) ==
    pc = "generated" =>
        /\ emitted = Concat([i \in 1..Len(frame) |-> ExpectedOfRow(frame[i], amended)])
        /\ lines = Concat([b \in 1..Len(emitted) |-> ExpectedLines(emitted[b])])
        /\ frame = <<>> => written = <<>>

(* C9 as claimed: generate_bef_from_instances, row by row, leaves out      *)
(* 'file_name', 'config' and the columns whose value is missing, splits    *)
(* every other column name at its last underscore into parameter and       *)
(* suffix, and writes one block per distinct suffix, in the order the      *)
(* suffixes are first met among the columns of the row, with one line per  *)
(* column of that suffix; no rows, empty text.                             *)
C9_EveryColumnSplit == EncoderLaw(FALSE)

(* C9 as amended: as above, and a column whose name has no underscore, or  *)
(* nothing before or nothing after its last underscore, is left out as     *)
(* well.                                                                   *)
C9_Encoder == EncoderLaw(TRUE)

\* two rows written as one block: a cell is missing, and a column with
\* nothing before its underscore holds a value
C9_Witness ==
    /\ pc = "generated"
    /\ Len(frame) = 2
    /\ Len(emitted) = 1
    /\ Len(emitted[1].params) = 1
    /\ \E i \in 1..2 : \E j \in 1..Len(frame[i]) : frame[i][j].v = NaN
    /\ \E i \in 1..2 : \E j \in 1..Len(frame[i]) :
          frame[i][j].k = ColName(<<>>, s_block) /\ frame[i][j].v # NaN

====
